---- MODULE Spec2Model ----
(***************************************************************************)
(* generateEmbeddings (src/src/main.ts): reconciliation of a tree of       *)
(* markdown sources with the page / page_section catalog.                   *)
(*                                                                         *)
(* The catalog survives from one invocation to the next; an invocation is  *)
(* one call of run(), which calls generateEmbeddings once.  Every awaited  *)
(* call of the function is one step, and every awaited call may throw.     *)
(***************************************************************************)
EXTENDS Integers, Sequences, FiniteSets, TLC

\* Number of invocations of run() that are followed.
MaxRuns == 3

(***************************************************************************)
(* Values                                                                   *)
(***************************************************************************)
\* SQL NULL / JS undefined for ids and checksums (ids and checksums are >= 1).
NULL == 0
\* An absent parentPath.
NoPath == << >>

\* Files below the docs root, as character sequences.
DocA == <<"a", ".", "m", "d">>
DocB == <<"b", ".", "m", "d", "x">>
NotFoundPage == <<"p", "a", "g", "e", "s", "/", "4", "0", "4", ".", "m", "d", "x">>
TextFile == <<"c", ".", "t", "x", "t">>

\* const ignoredFiles = ["pages/404.mdx"]
ignoredFiles == {NotFoundPage}

\* Content fingerprints a source can have.
Checksums == {1, 2}

Digit == <<"1", "2">>

EndsWith(s, suffix) ==
    /\ Len(s) >= Len(suffix)
    /\ SubSeq(s, Len(s) - Len(suffix) + 1, Len(s)) = suffix

\* /\.mdx?$/.test(path)
IsMarkdownPath(path) ==
    \/ EndsWith(path, <<".", "m", "d">>)
    \/ EndsWith(path, <<".", "m", "d", "x">>)

\* !ignoredFiles.includes(path)
NotIgnored(path) == path \notin ignoredFiles

\* content.replace(/\n/g, " ")
NormalizeInput(content) ==
    [n \in 1..Len(content) |-> IF content[n] = "\n" THEN " " ELSE content[n]]

(***************************************************************************)
(* Collaborators whose code is not part of src/: the tree walker, the      *)
(* markdown source and the embedding provider.                             *)
(***************************************************************************)
\* The sections the loader returns for a source with the given fingerprint:
\* a source with fingerprint c has c sections.
LoadedSections(path, checksum) ==
    [n \in 1..checksum |->
        [slug    |-> <<path[1], Digit[n]>>,
         heading |-> <<"h", Digit[n]>>,
         content |-> <<path[1], "\n", Digit[checksum], Digit[n]>>]]

\* embeddingSource.load()
LoadResult(src) ==
    [checksum |-> src.checksum,
     meta     |-> <<"m", Digit[src.checksum]>>,
     sections |-> LoadedSections(src.path, src.checksum)]

\* openai.createEmbedding({model, input}) with status 200
EmbeddingOf(input) ==
    [embedding |-> <<"v">> \o input, total_tokens |-> Len(input)]

\* The trees the docs root can hold at the start of an invocation.  DocA is
\* there or not, with one content and no parent; DocB is there or not, with
\* either content, and reports either no parent or DocA.
TreeChoices ==
    { a \cup b :
        a \in {{}, {[path |-> DocA, parentPath |-> NoPath, checksum |-> 1]}},
        b \in {{}} \cup {{[path |-> DocB, parentPath |-> pp, checksum |-> c]} :
                            pp \in {NoPath, DocA}, c \in Checksums} }

\* Every order in which walk can report the files of a tree.
RECURSIVE Orders(_)
Orders(S) ==
    IF S = {} THEN {<< >>}
    ELSE UNION {{<<x>> \o rest : rest \in Orders(S \ {x})} : x \in S}

(***************************************************************************)
(* State                                                                    *)
(***************************************************************************)
VARIABLES
    pages,              \* table page
    sections,           \* table page_section
    nextPageId,         \* sequence behind page.id
    tree,               \* the sources below the docs root
    run,                \* invocations of run() so far
    pc,                 \* the awaited call the invocation is at
    shouldRefresh,
    refreshVersion,
    refreshDate,
    embeddingSources,
    i,                  \* position of the for loop in embeddingSources
    loaded,             \* { checksum, meta, sections } of the current source
    existingPage,       \* existingPageResult.rows
    existingParentPage, \* parentPageResult.rows
    parentPage,         \* parentPageQuery.rows
    page,               \* page.id returned by the upsert
    k,                  \* position of the inner for loop in sections
    embeddingResponse,
    calls,              \* createEmbedding calls of this invocation
    errors,             \* errors caught at the per-source boundary
    thrownAt,           \* the call that threw, while in the catch block
    sweeps,             \* executions of the final DELETE FROM page in this invocation
    prevRun,            \* how this invocation relates to the one before it
    droppedAt           \* position of the loop when the connection of client was
                        \* lost, NULL while it is not lost

store == <<pages, sections, nextPageId>>
params == <<tree, run, shouldRefresh, refreshVersion, refreshDate, embeddingSources, droppedAt>>
locals == <<loaded, existingPage, existingParentPage, parentPage, page, k, embeddingResponse>>
ghost == <<calls, errors, thrownAt, sweeps, prevRun>>
vars == <<store, params, pc, i, locals, ghost>>

\* rows[0] of a query result that has a row
Row(rows) == CHOOSE r \in rows : TRUE
\* rows[0]?.id
IdOf(rows) == IF rows = {} THEN NULL ELSE Row(rows).id
\* rows[0]?.path
PathOf(rows) == IF rows = {} THEN NoPath ELSE Row(rows).path

\* SELECT ... FROM page WHERE path = $1 LIMIT 1
SelectPageByPath(path) == {p \in pages : path # NoPath /\ p.path = path}
\* SELECT ... FROM page WHERE id = $1 LIMIT 1
SelectPageById(id) == {p \in pages : id # NULL /\ p.id = id}

\* The source the for loop is at.
embeddingSource == embeddingSources[i]

\* The awaited calls inside the per-source try block.
PerSourceSteps ==
    {"load", "selectExisting", "selectExistingParent", "selectNewParent",
     "updateParent", "updateMeta", "deleteSections", "selectParent",
     "upsertPage", "createEmbedding", "insertSection", "commit"}
\* Mutant of FatalSteps: load is awaited before the try block is entered.
FatalStepsWithLoad == {"connect", "walk", "sweep", "end", "load"}

\* The awaited calls outside it.
FatalSteps == {"connect", "walk", "sweep", "end"}

\* The awaited calls that are a client.query.
StoreSteps ==
    {"selectExisting", "selectExistingParent", "selectNewParent", "updateParent",
     "updateMeta", "deleteSections", "selectParent", "upsertPage", "insertSection",
     "commit", "sweep"}

\* Mutant of ConnectionUp: a query on a lost connection is answered.
ConnectionUpAlways == TRUE

\* client.query is answered only while the connection is not lost.
ConnectionUp == droppedAt = NULL

\* The error kinds: what load, createEmbedding and client.query throw.
ErrorKind(step) ==
    IF step = "load" THEN "load"
    ELSE IF step \in {"createEmbedding", "status"} THEN "embedding"
    ELSE "store"

Init ==
    /\ pages = {}
    /\ sections = {}
    /\ nextPageId = 1
    /\ tree = {}
    /\ run = 0
    /\ pc = "idle"
    /\ shouldRefresh = FALSE
    /\ refreshVersion = NULL
    /\ refreshDate = NULL
    /\ embeddingSources = << >>
    /\ i = 1
    /\ loaded = {}
    /\ existingPage = {}
    /\ existingParentPage = {}
    /\ parentPage = {}
    /\ page = NULL
    /\ k = 1
    /\ embeddingResponse = {}
    /\ calls = {}
    /\ errors = {}
    /\ thrownAt = "none"
    /\ sweeps = 0
    /\ prevRun = "other"
    /\ droppedAt = NULL

ResetLocals ==
    /\ loaded' = {}
    /\ existingPage' = {}
    /\ existingParentPage' = {}
    /\ parentPage' = {}
    /\ page' = NULL
    /\ k' = 1
    /\ embeddingResponse' = {}

\* for (const embeddingSource of embeddingSources): the body is entered while
\* a source is left, and the sweep follows the last one.
LoopPc(n, sources) == IF n <= Len(sources) THEN "load" ELSE "sweep"

(***************************************************************************)
(* run() and the head of generateEmbeddings                                 *)
(***************************************************************************)
\* How an invocation with the given flag on the given tree relates to the one
\* that has just ended; it is "other" unless the tree is the same.  After a
\* completed invocation that caught nothing it is "sameClean" when the flag was
\* false and is false now, and "cleanRefresh" otherwise.  With the flag false
\* now, it is "sameFailed" after a completed invocation with the flag false that
\* caught errors, and "afterFailed" after any other invocation that caught
\* errors (with the flag true, or ended by the fatal signal).
Relation(newTree, newRefresh) ==
    IF newTree # tree THEN "other"
    ELSE IF pc = "done" /\ errors = {}
           THEN (IF ~shouldRefresh /\ ~newRefresh THEN "sameClean" ELSE "cleanRefresh")
    ELSE IF newRefresh \/ errors = {} THEN "other"
    ELSE IF pc = "done" /\ ~shouldRefresh THEN "sameFailed"
    ELSE "afterFailed"

\* run() is invoked on the tree as it is now.
StartRun ==
    /\ pc \in {"idle", "done", "failed"}
    /\ run < MaxRuns
    /\ run' = run + 1
    /\ tree' \in TreeChoices
    /\ shouldRefresh' \in BOOLEAN
    /\ pc' = "connect"
    /\ prevRun' = Relation(tree', shouldRefresh')
    /\ thrownAt' = "none"
    /\ sweeps' = 0
    /\ calls' = {}
    /\ errors' = {}
    /\ embeddingSources' = << >>
    /\ droppedAt' = NULL
    /\ i' = 1
    /\ ResetLocals
    /\ UNCHANGED <<store, refreshVersion, refreshDate>>

\* await client.connect(); refreshVersion = uuidv4(); refreshDate = new Date()
Connect ==
    /\ pc = "connect"
    /\ refreshVersion' = run
    /\ refreshDate' = run
    /\ pc' = "walk"
    /\ UNCHANGED <<store, tree, run, shouldRefresh, embeddingSources, droppedAt, i, locals, ghost>>

\* (await walk(docsRootPath)).filter(...).filter(...).map(...)
Discovered(order) ==
    SelectSeq(SelectSeq(order, LAMBDA e : IsMarkdownPath(e.path)),
              LAMBDA e : NotIgnored(e.path))

\* What walk reports: the sources of the tree and the two other files.
WalkEntries ==
    tree \cup {[path |-> NotFoundPage, parentPath |-> NoPath, checksum |-> 1],
               [path |-> TextFile, parentPath |-> NoPath, checksum |-> 1]}

Walk ==
    /\ pc = "walk"
    /\ \E order \in Orders(WalkEntries) :
          /\ embeddingSources' = Discovered(order)
          /\ pc' = LoopPc(1, embeddingSources')
    /\ i' = 1
    /\ UNCHANGED <<store, tree, run, shouldRefresh, refreshVersion, refreshDate,
                   droppedAt, locals, ghost>>

(***************************************************************************)
(* The body of the for loop: one source                                     *)
(***************************************************************************)
Goto(step) ==
    /\ pc' = step
    /\ UNCHANGED <<params, i, ghost>>

\* const { checksum, meta, sections } = await embeddingSource.load()
Load ==
    /\ pc = "load"
    /\ loaded' = {LoadResult(embeddingSource)}
    /\ Goto("selectExisting")
    /\ UNCHANGED <<store, existingPage, existingParentPage, parentPage, page, k, embeddingResponse>>

\* Mutant of IsUnchanged: the refresh flag is tested the wrong way round.
IsUnchangedFlagInverted(refresh, rows, checksum) ==
    /\ refresh
    /\ rows # {}
    /\ Row(rows).checksum # NULL
    /\ Row(rows).checksum = checksum

\* if (!shouldRefresh && existingPage?.checksum === checksum)
IsUnchanged(refresh, rows, checksum) ==
    /\ ~refresh
    /\ rows # {}
    /\ Row(rows).checksum # NULL
    /\ Row(rows).checksum = checksum

\* SELECT id, path, checksum, parent_page_id FROM page WHERE path = $1 LIMIT 1
SelectExisting ==
    /\ pc = "selectExisting"
    /\ ConnectionUp
    /\ existingPage' = SelectPageByPath(embeddingSource.path)
    /\ Goto(IF IsUnchanged(shouldRefresh, existingPage', Row(loaded).checksum)
              THEN "selectExistingParent"
            ELSE IF existingPage' # {} THEN "deleteSections"
            ELSE "selectParent")
    /\ UNCHANGED <<store, loaded, existingParentPage, parentPage, page, k, embeddingResponse>>

\* Mutant of ParentChanged: a page without a parent is never given one.
ParentChangedIfSet(rows, parentPath) == rows # {} /\ PathOf(rows) # parentPath

\* Mutant of ParentChanged: the parent of an unchanged page is never looked up again.
ParentChangedNever(rows, parentPath) == FALSE

\* if (existingParentPage?.path !== parentPath)
ParentChanged(rows, parentPath) == PathOf(rows) # parentPath

\* SELECT id, path FROM page WHERE id = $1 LIMIT 1  (existingPage.parent_page_id)
SelectExistingParent ==
    /\ pc = "selectExistingParent"
    /\ ConnectionUp
    /\ existingParentPage' = SelectPageById(Row(existingPage).parent_page_id)
    /\ Goto(IF ParentChanged(existingParentPage', embeddingSource.parentPath)
              THEN "selectNewParent" ELSE "updateMeta")
    /\ UNCHANGED <<store, loaded, existingPage, parentPage, page, k, embeddingResponse>>

\* SELECT id FROM page WHERE path = $1 LIMIT 1  (parentPath, unchanged page)
SelectNewParent ==
    /\ pc = "selectNewParent"
    /\ ConnectionUp
    /\ parentPage' = SelectPageByPath(embeddingSource.parentPath)
    /\ Goto("updateParent")
    /\ UNCHANGED <<store, loaded, existingPage, existingParentPage, page, k, embeddingResponse>>

\* Mutant of WithParent: the UPDATE has no WHERE clause.
WithParentEveryRow(p, id, parentId) == [p EXCEPT !.parent_page_id = parentId]

\* UPDATE page SET parent_page_id = $1 WHERE id = $2
WithParent(p, id, parentId) ==
    IF p.id = id THEN [p EXCEPT !.parent_page_id = parentId] ELSE p

UpdateParent ==
    /\ pc = "updateParent"
    /\ ConnectionUp
    /\ pages' = {WithParent(p, Row(existingPage).id, IdOf(parentPage)) : p \in pages}
    /\ Goto("updateMeta")
    /\ UNCHANGED <<sections, nextPageId, locals>>

\* UPDATE page SET type = $1, source = $2, meta = $3, version = $4,
\* last_refresh = $5 WHERE id = $6
WithMeta(p, id, src, meta, version, date) ==
    IF p.id = id
      THEN [p EXCEPT !.type = src.type, !.source = src.source, !.meta = meta,
                     !.version = version, !.last_refresh = date]
      ELSE p

\* type and source of new MarkdownSource("markdown", entry.path)
SourceTags == [type |-> "markdown", source |-> "markdown"]

UpdateMeta ==
    /\ pc = "updateMeta"
    /\ ConnectionUp
    /\ pages' = {WithMeta(p, Row(existingPage).id, SourceTags, Row(loaded).meta,
                          refreshVersion, refreshDate) : p \in pages}
    /\ Goto("continue")
    /\ UNCHANGED <<sections, nextPageId, locals>>

\* Mutant of SectionsKept: the DELETE removes nothing.
SectionsKeptAll(id) == sections

\* DELETE FROM page_section WHERE page_id = $1
SectionsKept(id) == {s \in sections : s.page_id # id}

DeleteSections ==
    /\ pc = "deleteSections"
    /\ ConnectionUp
    /\ sections' = SectionsKept(Row(existingPage).id)
    /\ Goto("selectParent")
    /\ UNCHANGED <<pages, nextPageId, locals>>

\* SELECT id FROM page WHERE path = $1 LIMIT 1  (parentPath, page to resync)
SelectParent ==
    /\ pc = "selectParent"
    /\ ConnectionUp
    /\ parentPage' = SelectPageByPath(embeddingSource.parentPath)
    /\ Goto("upsertPage")
    /\ UNCHANGED <<store, loaded, existingPage, existingParentPage, page, k, embeddingResponse>>

\* Mutant of UpsertChecksum: ON CONFLICT does not overwrite the checksum.
UpsertChecksumKept(old) == old

\* VALUES (NULL, $1, ...) and SET checksum = EXCLUDED.checksum
UpsertChecksum(old) == NULL

\* INSERT INTO page (...) VALUES (NULL, $1, $2, $3, $4, $5, $6, $7)
\* ON CONFLICT (path) DO UPDATE SET ... RETURNING id
UpsertedRow(id, oldChecksum, src, meta, parentId, version, date) ==
    [id |-> id, path |-> src.path, checksum |-> UpsertChecksum(oldChecksum),
     type |-> SourceTags.type, source |-> SourceTags.source, meta |-> meta,
     parent_page_id |-> parentId, version |-> version, last_refresh |-> date]

\* for (const { slug, heading, content } of sections): entered while a section is left
SectionPc(n, secs) == IF n <= Len(secs) THEN "createEmbedding" ELSE "commit"

UpsertPage ==
    /\ pc = "upsertPage"
    /\ ConnectionUp
    /\ LET conflict == {p \in pages : p.path = embeddingSource.path}
           id == IF conflict = {} THEN nextPageId ELSE Row(conflict).id
           old == IF conflict = {} THEN NULL ELSE Row(conflict).checksum
       IN /\ pages' = (pages \ conflict) \cup
                        {UpsertedRow(id, old, embeddingSource, Row(loaded).meta,
                                     IdOf(parentPage), refreshVersion, refreshDate)}
          /\ nextPageId' = IF conflict = {} THEN nextPageId + 1 ELSE nextPageId
          /\ page' = id
    /\ k' = 1
    /\ Goto(SectionPc(1, Row(loaded).sections))
    /\ UNCHANGED <<sections, loaded, existingPage, existingParentPage,
                   parentPage, embeddingResponse>>

\* Mutant of section: the inner loop goes through the sections from the last one.
sectionFromLast == Row(loaded).sections[Len(Row(loaded).sections) - k + 1]

\* The section the inner loop is at.
section == Row(loaded).sections[k]

\* await openai.createEmbedding({ model, input }); a status other than 200 throws
CreateEmbedding ==
    /\ pc = "createEmbedding"
    /\ calls' = calls \cup {<<embeddingSource.path, k>>}
    /\ \/ /\ embeddingResponse' = {EmbeddingOf(NormalizeInput(section.content))}
          /\ pc' = "insertSection"
          /\ UNCHANGED <<errors, thrownAt>>
       \/ /\ embeddingResponse' = {}
          /\ pc' = "catch"
          /\ thrownAt' = "status"
          /\ errors' = errors \cup {[path |-> embeddingSource.path,
                                     kind |-> ErrorKind("status")]}
    /\ UNCHANGED <<store, params, i, loaded, existingPage, existingParentPage,
                   parentPage, page, k, sweeps, prevRun>>

\* RETURNING id of page_section: a row's id is its own, and later rows of a page
\* have later ids.  An invocation inserts the n-th section of a page once.
SectionId(version, pageId, n) == <<version, pageId, n>>

\* INSERT INTO page_section (page_id, slug, heading, content, token_count, embedding)
SectionRow(id, pageId, sec, response) ==
    [id |-> id, page_id |-> pageId, slug |-> sec.slug, heading |-> sec.heading,
     content |-> sec.content, token_count |-> response.total_tokens,
     embedding |-> response.embedding]

InsertSection ==
    /\ pc = "insertSection"
    /\ ConnectionUp
    /\ sections' = sections \cup
                     {SectionRow(SectionId(refreshVersion, page, k), page, section,
                                 Row(embeddingResponse))}
    /\ k' = k + 1
    /\ embeddingResponse' = {}
    /\ Goto(SectionPc(k + 1, Row(loaded).sections))
    /\ UNCHANGED <<pages, nextPageId, loaded, existingPage, existingParentPage,
                   parentPage, page>>

\* UPDATE page SET checksum = $1 WHERE id = $2
WithChecksum(p, id, checksum) ==
    IF p.id = id THEN [p EXCEPT !.checksum = checksum] ELSE p

Commit ==
    /\ pc = "commit"
    /\ ConnectionUp
    /\ pages' = {WithChecksum(p, page, Row(loaded).checksum) : p \in pages}
    /\ Goto("synced")
    /\ UNCHANGED <<sections, nextPageId, locals>>

\* An awaited call inside the try block throws: the catch at the per-source
\* boundary.  A provider call that throws was made all the same.
Throw ==
    /\ pc \in PerSourceSteps
    /\ pc' = "catch"
    /\ thrownAt' = pc
    /\ errors' = errors \cup {[path |-> embeddingSource.path, kind |-> ErrorKind(pc)]}
    /\ calls' = IF pc = "createEmbedding"
                  THEN calls \cup {<<embeddingSource.path, k>>} ELSE calls
    /\ UNCHANGED <<store, params, i, locals, sweeps, prevRun>>

\* A query inside the try block throws because the connection is lost; from
\* then on no query of the invocation is answered.
DropThrow ==
    /\ pc \in PerSourceSteps \cap StoreSteps
    /\ droppedAt = NULL
    /\ droppedAt' = i
    /\ pc' = "catch"
    /\ thrownAt' = pc
    /\ errors' = errors \cup {[path |-> embeddingSource.path, kind |-> ErrorKind(pc)]}
    /\ UNCHANGED <<store, tree, run, shouldRefresh, refreshVersion, refreshDate,
                   embeddingSources, i, locals, calls, sweeps, prevRun>>

\* continue, the end of the try block, or the end of the catch block
NextSource ==
    /\ pc \in {"continue", "synced", "catch"}
    /\ i' = i + 1
    /\ pc' = LoopPc(i + 1, embeddingSources)
    /\ ResetLocals
    /\ thrownAt' = "none"
    /\ UNCHANGED <<store, params, calls, errors, sweeps, prevRun>>

(***************************************************************************)
(* After the loop                                                           *)
(***************************************************************************)
\* Mutant of IsStale: the comparison is an equality.
IsStaleInverted(p, version) == p.version = version

\* WHERE version <> $1
IsStale(p, version) == p.version # version

\* DELETE FROM page WHERE version <> $1.  The statement removes rows of page;
\* the source defines no referential action on page_section or parent_page_id.
Sweep ==
    /\ pc = "sweep"
    /\ ConnectionUp
    /\ pages' = {p \in pages : ~IsStale(p, refreshVersion)}
    /\ pc' = "end"
    /\ sweeps' = sweeps + 1
    /\ UNCHANGED <<sections, nextPageId, params, i, locals, calls, errors, thrownAt, prevRun>>

\* await client.end()
End ==
    /\ pc = "end"
    /\ pc' = "done"
    /\ UNCHANGED <<store, params, i, locals, ghost>>

\* An awaited call outside the try block throws: run() catches it and calls
\* core.setFailed.
FatalThrow ==
    /\ pc \in FatalSteps
    /\ pc' = "failed"
    /\ UNCHANGED <<store, params, i, locals, ghost>>

Next ==
    \/ StartRun \/ Connect \/ Walk
    \/ Load \/ SelectExisting
    \/ SelectExistingParent \/ SelectNewParent \/ UpdateParent \/ UpdateMeta
    \/ DeleteSections \/ SelectParent \/ UpsertPage
    \/ CreateEmbedding \/ InsertSection \/ Commit
    \/ Throw \/ NextSource
    \/ Sweep \/ End \/ FatalThrow

Spec == Init /\ [][Next]_vars

(***************************************************************************)
(* Vocabulary of the properties                                             *)
(***************************************************************************)
\* The rows of page_section that belong to a page.
SectionsOfPage(id) == {s \in sections : s.page_id = id}

\* The page has exactly the sections the loader returns for the source: one
\* row per loaded section, with the vector and token count of its content.
HasFullSet(id, src) ==
    LET secs == LoadedSections(src.path, src.checksum)
        rows == SectionsOfPage(id)
    IN /\ Cardinality(rows) = Len(secs)
       /\ \A n \in 1..Len(secs) :
            \E r \in rows :
                r = SectionRow(r.id, id, secs[n], EmbeddingOf(NormalizeInput(secs[n].content)))

\* The steps of the metadata-only branch and of the resync branch.
SkipSteps == {"selectExistingParent", "selectNewParent", "updateParent", "updateMeta"}
ResyncSteps == {"deleteSections", "selectParent", "upsertPage", "createEmbedding",
                "insertSection", "commit"}

\* The case of the metadata-only branch: shouldRefresh is false and the page
\* found for the path has the checksum that was just loaded.
SourceUnchanged ==
    /\ ~shouldRefresh
    /\ existingPage # {}
    /\ loaded # {}
    /\ Row(existingPage).checksum = Row(loaded).checksum

\* The page row of the current source, if any.
CurrentPage == SelectPageByPath(embeddingSource.path)

\* The paths of the sources of the tree that the two filters let through.
DiscoveredPaths == {e.path : e \in {x \in WalkEntries : IsMarkdownPath(x.path) /\ NotIgnored(x.path)}}

(***************************************************************************)
(* C1                                                                       *)
(***************************************************************************)
\* C1: a page's checksum becomes non-null only in the commit step of its source
\* (UPDATE page SET checksum), when an embedding was obtained and a section row
\* inserted for every section the loader returned; and the page upsert leaves the
\* row of the source with a NULL checksum, on insert and on path conflict alike.
C1_ChecksumOnlyAtCommit ==
    [][ /\ \A q \in pages' :
              (q.checksum # NULL /\ \A p \in pages : p.id = q.id => p.checksum = NULL)
              => /\ pc = "commit" /\ pc' = "synced"
                 /\ q.id = page
                 /\ q.path = embeddingSource.path
                 /\ q.checksum = Row(loaded).checksum
                 /\ HasFullSet(q.id, embeddingSource)'
                 /\ \A n \in 1..Len(Row(loaded).sections) : <<q.path, n>> \in calls
        /\ (pc = "upsertPage" /\ pc' # "catch")
              => /\ CurrentPage' # {}
                 /\ \A q \in CurrentPage' : q.checksum = NULL /\ q.id = page'
      ]_vars

\* A row that had a non-null checksum was overwritten by the upsert and committed again.
C1_Witness ==
    /\ pc = "synced"
    /\ existingPage # {}
    /\ Row(existingPage).checksum # NULL
    /\ \E q \in CurrentPage : q.checksum = Row(loaded).checksum

(***************************************************************************)
(* C2                                                                       *)
(***************************************************************************)
\* C2: in every reachable state, a page whose stored checksum is non-null and
\* equal to the current checksum of its source has the full set of sections of
\* that source.
C2_NoFalseUpToDate ==
    \A p \in pages : \A src \in tree :
        (p.path = src.path /\ p.checksum # NULL /\ p.checksum = src.checksum)
        => HasFullSet(p.id, src)

(***************************************************************************)
(* C3                                                                       *)
(***************************************************************************)
\* The section rows of the page that this invocation did not insert.
OldSections(id) == {r \in SectionsOfPage(id) : r.id[1] # refreshVersion}

\* The loop body is over for the current source, and the load and the lookup
\* of its page had succeeded.
Processed ==
    /\ pc \in {"continue", "synced", "catch"}
    /\ thrownAt \notin {"load", "selectExisting"}

C5_SweepCompleteness ==
    (pc = "done") =>
        /\ {p.path : p \in {q \in pages : q.version = refreshVersion}} = DiscoveredPaths
        /\ \A path \in DiscoveredPaths : Cardinality(SelectPageByPath(path)) = 1
        /\ \A p \in pages : p.version = refreshVersion

(***************************************************************************)
(* C6                                                                       *)
(***************************************************************************)
\* C6: page rows are deleted by the sweep only; the sweep is reached once per
\* invocation, when the loop has gone through every discovered source, whatever
\* was caught on the way; once it has run, every page carries the version of the
\* invocation, so that no page of a removed, ignored or non-markdown path is left.
C6_SweepOnceAfterLoop ==
    [][ /\ (\E p \in pages : \A q \in pages' : q.id # p.id)
              => (pc = "sweep" /\ pc' = "end")
        /\ (pc' = "sweep")
              => /\ pc \in {"walk", "continue", "synced", "catch"}
                 /\ i' = Len(embeddingSources') + 1
        /\ sweeps' = (IF pc' \in {"end", "done"} \/ (pc' = "failed" /\ pc = "end")
                         THEN 1 ELSE 0)
        /\ (pc' \in {"end", "done"})
              => /\ \A p \in pages' : p.version = refreshVersion'
                 /\ \A p \in pages' : p.path \in DiscoveredPaths'
        /\ (pc = "sweep" /\ pc' = "end")
              => pages' = {p \in pages : p.version = refreshVersion}
      ]_vars

\* The sweep of a completed invocation removed the page of a source that had left
\* the tree, after an error had been caught for another source.
C6_Witness ==
    /\ pc = "done"
    /\ errors # {}
    /\ DocA \notin DiscoveredPaths
    /\ \E id \in 1..(nextPageId - 1) : SelectPageById(id) = {}

(***************************************************************************)
(* C7                                                                       *)
(***************************************************************************)
\* The source of the tree with the given path.
SourceAt(path) == CHOOSE src \in tree : src.path = path

\* C7: when the only error of a completed invocation is a failed embedding call
\* for source k, the loop went through every source, the page of k has a NULL
\* checksum and fewer sections than were loaded, and every other discovered
\* source has a page with a non-null checksum and its full set of sections.
C7_FailureContained ==
    \A failing \in DiscoveredPaths :
        (pc = "done" /\ errors = {[path |-> failing, kind |-> "embedding"]})
        => /\ i = Len(embeddingSources) + 1
           /\ \E p \in SelectPageByPath(failing) :
                /\ p.checksum = NULL
                /\ Cardinality(SectionsOfPage(p.id))
                     < Len(LoadedSections(failing, SourceAt(failing).checksum))
           /\ \A other \in DiscoveredPaths \ {failing} :
                \E p \in SelectPageByPath(other) :
                    /\ p.checksum # NULL
                    /\ HasFullSet(p.id, SourceAt(other))

(***************************************************************************)
(* C8                                                                       *)
(***************************************************************************)
\* C8: whatever call of the loop body threw, the page of the failed source has a
\* NULL checksum when the error has been caught, and the loop goes on.
C8_FailedPageLeftNull ==
    (pc = "catch") => \A p \in CurrentPage : p.checksum = NULL

(***************************************************************************)
(* C9                                                                       *)
(***************************************************************************)
\* The unchanged source reports a parent other than the page its page refers to.
Reparenting ==
    /\ pc \in SkipSteps
    /\ PathOf(SelectPageById(Row(existingPage).parent_page_id))
          # embeddingSource.parentPath

\* C9: while an unchanged source that reports another parent is processed with
\* shouldRefresh false, a step changes nothing but parent_page_id, type, source,
\* meta, version and last_refresh of its page: the id, path and checksum of that
\* page, every other page, every section row and the provider calls stay as
\* they are.
C9_ReparentingFrame ==
    [][ Reparenting
        => /\ sections' = sections
           /\ calls' = calls
           /\ nextPageId' = nextPageId
           /\ Cardinality(pages') = Cardinality(pages)
           /\ \A p \in pages : p.id # Row(existingPage).id => p \in pages'
           /\ \E q \in pages' :
                /\ q.id = Row(existingPage).id
                /\ q.path = Row(existingPage).path
                /\ q.checksum = Row(existingPage).checksum
                /\ q.checksum = Row(loaded).checksum
      ]_vars

\* The parent reference of an unchanged page was re-resolved and its metadata refreshed.
C9_Witness ==
    /\ pc = "continue"
    /\ PathOf(existingParentPage) # embeddingSource.parentPath
    /\ \E q \in CurrentPage :
         /\ q.parent_page_id # Row(existingPage).parent_page_id
         /\ q.version = refreshVersion
    /\ Cardinality(pages) = 2

(***************************************************************************)
(* C10                                                                      *)
(***************************************************************************)
\* The parentPath the source of a page reports.
ParentPathOf(p) == SourceAt(p.path).parentPath

\* C10 as stated, for invocations in which nothing was caught: after a completed
\* invocation each page refers to the page whose path is the parentPath of its
\* source when that page is in the catalog, and to none otherwise.
C10_Original ==
    (pc = "done" /\ errors = {})
    => \A p \in pages :
          p.parent_page_id = IdOf(SelectPageByPath(ParentPathOf(p)))

\* C10, amended: when a source has been processed without error, its page refers
\* to the page that is then in the catalog under the parentPath, if there is one,
\* and otherwise to none or to a page that is no longer in the catalog; after a
\* completed invocation no page refers to a page in the catalog that has another
\* path than its parentPath.
C10_ParentResolvedWhenProcessed ==
    /\ (pc \in {"continue", "synced"})
          => \A p \in CurrentPage :
                LET target == SelectPageByPath(embeddingSource.parentPath)
                IN IF target # {} THEN p.parent_page_id = IdOf(target)
                   ELSE SelectPageById(p.parent_page_id) = {}
    /\ (pc = "done")
          => \A p \in pages : \A q \in SelectPageById(p.parent_page_id) :
                q.path = ParentPathOf(p)

\* A page left without parent by an earlier invocation, because it was processed
\* before the page of its parent existed, has been given that parent.
C10_Witness ==
    /\ pc = "continue"
    /\ Row(existingPage).parent_page_id = NULL
    /\ \E p \in CurrentPage :
         /\ p.parent_page_id # NULL
         /\ p.parent_page_id = IdOf(SelectPageByPath(embeddingSource.parentPath))

(***************************************************************************)
(* C11                                                                      *)
(***************************************************************************)
\* C11: core.setFailed is reached from the four awaited calls outside the loop
\* body (connect, walk, the final DELETE, end) and from nowhere else; an error
\* thrown while a source is processed is caught, the loop goes on with the next
\* source or to the sweep, and an invocation in which something was caught ends
\* only by way of the sweep; a failure of connect leaves both tables as they were.
C11_FatalOnlyOutsideLoop ==
    [][ /\ (pc' = "failed")
              => pc \in {"connect", "walk", "sweep", "end"}
        /\ (pc' = "done")
              => pc = "end"
        /\ (pc \notin {"idle", "done", "failed", "connect", "walk", "sweep", "end"})
              => pc' \notin {"failed", "done", "end"}
        /\ (pc = "catch")
              => /\ pc' = (IF i < Len(embeddingSources) THEN "load" ELSE "sweep")
                 /\ errors' = errors
                 /\ errors # {}
        /\ (pc' \in {"failed", "done"} /\ errors' # {})
              => pc \in {"sweep", "end"}
        /\ (pc = "connect" /\ pc' = "failed")
              => (pages' = pages /\ sections' = sections)
      ]_vars

\* An error was caught for a source, the sweep was attempted all the same, and
\* the invocation ended with the fatal signal because the sweep or the close failed.
C11_Witness ==
    /\ pc = "failed"
    /\ errors # {}
    /\ i = Len(embeddingSources) + 1

AllInSync ==
    \A path \in DiscoveredPaths :
        \E p \in SelectPageByPath(path) :
            /\ p.checksum = SourceAt(path).checksum
            /\ HasFullSet(p.id, SourceAt(path))

\* C13: when an invocation in which sources failed, with either value of the
\* flag, is followed by an invocation with shouldRefresh false on the same tree
\* in which nothing fails, then at the end of the second one every discovered
\* source has a page with the checksum of the source and exactly its sections.
C13_RecoveryOnNextRun ==
    (pc = "done" /\ errors = {} /\ prevRun \in {"sameFailed", "afterFailed"})
    => AllInSync

FirstRows(n) ==
    {SectionRow(SectionId(refreshVersion, page, m), page, Row(loaded).sections[m],
                EmbeddingOf(NormalizeInput(Row(loaded).sections[m].content))) :
        m \in 1..n}

\* The sections of the current source for which the provider was called.
Embedded == {n \in 1..Len(Row(loaded).sections) : <<embeddingSource.path, n>> \in calls}

\* C15: the sections of a page are embedded and inserted one at a time in the
\* order of the loader: when the inner loop is at section k, the page has the
\* rows of the first k-1 sections and nothing else; when the embedding call
\* (also by a status other than 200) or the insert of section k fails, the page
\* is left with exactly those rows, no section after k was embedded, and the
\* checksum of the page is NULL, the commit not having run.
C15_FirstFailingSectionStops ==
    /\ (pc = "createEmbedding")
          => /\ SectionsOfPage(page) = FirstRows(k - 1)
             /\ Embedded = 1..(k - 1)
    /\ (pc = "insertSection")
          => /\ SectionsOfPage(page) = FirstRows(k - 1)
             /\ Embedded = 1..k
    /\ (pc = "catch" /\ thrownAt \in {"createEmbedding", "status", "insertSection"})
          => /\ k \in 1..Len(Row(loaded).sections)
             /\ SectionsOfPage(page) = FirstRows(k - 1)
             /\ Embedded = 1..k
             /\ CurrentPage # {}
             /\ \A p \in CurrentPage : p.id = page /\ p.checksum = NULL

\* The provider answered the second section of a page with a status other than
\* 200: the page, which had two sections from an earlier invocation, is left
\* with the first section alone.
C15_Witness ==
    /\ pc = "catch"
    /\ thrownAt = "status"
    /\ k = 2
    /\ existingPage # {}
    /\ Row(existingPage).checksum = Row(loaded).checksum
    /\ SectionsOfPage(page) = FirstRows(1)
    /\ OldSections(page) = {}

DefaultNext == Next /\ shouldRefresh' = FALSE

SpecDefault == Init /\ [][DefaultNext]_vars

(***************************************************************************)
(* The same invocations, in which the connection of client can be lost     *)
(***************************************************************************)
DropNext == (Next \/ DropThrow) /\ shouldRefresh' = FALSE

DropSpec == Init /\ [][DropNext]_vars

====
